---- MODULE Spec2Model ----
(***************************************************************************)
(* FFTBot (src/src/app/page.tsx): ingestion of a tab-delimited sensor log, *)
(* sampling-rate estimation, FFT spectrum, peak detection, harmonic        *)
(* selection and cosine reconstruction, and the React component (Home)     *)
(* that holds the inputs and the memoised derived values.                  *)
(*                                                                         *)
(* Numbers.  Timestamps and channel values are integers (doubles are exact *)
(* on them).  A rate or a frequency is an exact rational <<num, den>> in   *)
(* lowest terms.  A magnitude is an integer count of 1/MagScale units.     *)
(* "null" and an absent record field are the empty tuple <<>>, a present   *)
(* value v is <<v>> where the two have to be told apart.                   *)
(***************************************************************************)
EXTENDS Integers, Sequences, FiniteSets, TLC

VARIABLES
  \* ---- React state of Home (page.tsx 274-278)
  rows,            \* ParsedRow[] | null   (<<>> is null; a Series is never empty)
  error,           \* string | null        ("" is null)
  selectedKey,     \* ColumnKey
  harmonicsCount,  \* number
  fminHz,          \* number (a rational)
  \* ---- useMemo values of Home (page.tsx 383-529)
  sampleHz, relTimesSec, series, spectrum, harmonicFreqs, harmonicInfo,
  equation, reconstructed,
  \* ---- asynchronous file loads in flight, in the order they were started
  inflight,
  \* ---- what the last step was (history, read by the properties only)
  last,
  \* ---- a pure function under test: its input, its output, its position
  fin, fout, pc

appVars  == <<rows, error, selectedKey, harmonicsCount, fminHz, inflight, last>>
memoVars == <<sampleHz, relTimesSec, series, spectrum, harmonicFreqs,
              harmonicInfo, equation, reconstructed>>
fnVars   == <<fin, fout, pc>>
vars     == <<appVars, memoVars, fnVars>>

(***************************************************************************)
(* Bounds of the model.                                                    *)
(***************************************************************************)
MaxIn    == 4   \* rows of a file handed to the Ingestor alone
MaxT     == 2   \* largest timestamp (ms) of those rows
MaxRateRows == 5   \* rows handed to the SamplingEstimator alone
MaxRateT    == 4   \* largest timestamp (ms) of those rows
MaxFftLen   == 8   \* samples handed to the SpectralAnalyzer alone (at most 1023)
MaxBins     == 6   \* bins of a spectrum handed to the PeakDetector alone
MaxHarmBins == 7   \* bins of a spectrum handed to the HarmonicSelector alone
MaxK        == 3   \* largest requested harmonic count handed to it
MaxRows     == 6   \* rows of a file loaded into the page
MaxCount    == 2   \* cap on harmonicsCount (Add Harmonic is unbounded)
MaxInflight == 2   \* cap on the file loads in flight at once
MaxCellRows == 2   \* rows of a file handed to the Ingestor for its cells
MaxTableBins  == 4   \* bins of a spectrum handed to the harmonic table alone
MaxTableFreqs == 2   \* harmonic frequencies and count handed to it

(***************************************************************************)
(* Arithmetic helpers.                                                     *)
(***************************************************************************)
Abs(x) == IF x < 0 THEN -x ELSE x
Min(a, b) == IF a < b THEN a ELSE b
Max(a, b) == IF a > b THEN a ELSE b

RECURSIVE Gcd(_, _)
Gcd(a, b) == IF b = 0 THEN Abs(a) ELSE Gcd(b, a % b)

\* The rational n/d (d # 0) in lowest terms with a positive denominator.
Rat(n, d) ==
  LET g == Gcd(Abs(n), Abs(d))
      s == IF d < 0 THEN -1 ELSE 1
  IN <<(s * n) \div g, (s * d) \div g>>

Lcm(a, b) == (a \div Gcd(a, b)) * b
RatLess(p, q) ==
  LET l == Lcm(p[2], q[2]) IN p[1] * (l \div p[2]) < q[1] * (l \div q[2])
RatLeq(p, q) == p = q \/ RatLess(p, q)
RatSub(p, q) ==
  LET l == Lcm(p[2], q[2])
  IN Rat(p[1] * (l \div p[2]) - q[1] * (l \div q[2]), l)
RatAbs(p) == <<Abs(p[1]), p[2]>>
RatMulInt(p, k) == Rat(p[1] * k, p[2])
RatDivInt(p, k) == LET g == Gcd(Abs(p[1]), k) IN Rat(p[1] \div g, p[2] * (k \div g))

\* The sum of s[lo .. hi], by halves.
RECURSIVE SumRange(_, _, _)
SumRange(s, lo, hi) ==
  IF lo > hi THEN 0
  ELSE IF lo = hi THEN s[lo]
  ELSE LET mid == (lo + hi) \div 2
       IN SumRange(s, lo, mid) + SumRange(s, mid + 1, hi)
SeqSum(s) == SumRange(s, 1, Len(s))

\* All sequences over S of length 0..n.
SeqsUpTo(S, n) == UNION {[1..k -> S] : k \in 0..n}

(***************************************************************************)
(* Array.prototype.sort with a comparator (a, b) => key(a) - key(b): a     *)
(* stable sort (ECMAScript 2019), ascending in key.  Elements of equal key  *)
(* keep their input order: an element is <<key, position, item>> and the   *)
(* order is by key, then by position.                                      *)
(***************************************************************************)
KeyThenPosition(x, y) == x[1] < y[1] \/ (x[1] = y[1] /\ x[2] < y[2])

\* s is a sequence of <<key, item>>; the items, stably sorted by ascending key.
StableSort(s) ==
  LET t == SortSeq([i \in 1..Len(s) |-> <<s[i][1], i, s[i][2]>>], KeyThenPosition)
  IN [i \in 1..Len(t) |-> t[i][3]]

\* The indices lo .. hi in order, for Array.prototype.filter and loops that
\* keep some elements.
Indices(lo, hi) == [i \in 1..(hi - lo + 1) |-> lo + i - 1]

(***************************************************************************)
(* Ingestor: parseTxtFile (page.tsx 106-150).                              *)
(*                                                                         *)
(* A file is [hasTime, rows]; a raw row is what papaparse hands over:      *)
(* [time |-> cell, cells |-> [COLUMN_KEYS -> cell]].  A time cell is       *)
(* <<"ok", ms>> (a string Date parses to ms), <<"bad">> (a string Date     *)
(* does not parse) or <<"empty">>.  A channel cell is <<"num", v>> (a      *)
(* finite number after dynamicTyping), <<"empty">> (null), <<"text">> (a   *)
(* string Number() turns into NaN), <<"inf">> (the string "Infinity"),     *)
(* <<"blank">> (a string of white space only) or <<"bool", b>> (the cell   *)
(* true or false, which dynamicTyping hands over as a boolean).            *)
(* Two of the nine channels are modelled.                                  *)
(***************************************************************************)
COLUMN_KEYS == {"AccX(g)", "AccY(g)"}

\* row["time"] ?? "" : a file whose header has no `time` column has no such field.
TimeStr(file, row) == IF file.hasTime THEN row.time ELSE <<"empty">>

\* new Date(timeStr).getTime(): <<ms>>, or <<>> for NaN.
DateParse(cell) == IF cell[1] = "ok" THEN <<cell[2]>> ELSE <<>>

\* page.tsx 125: typeof v === "number" ? v : v != null && v !== "" ? Number(v) : NaN
\* as <<"fin", n>>, <<"nan">> or <<"inf">>.  Number() of a string of white space
\* is 0, Number(true) is 1 and Number(false) is 0.
CellNumber(cell) ==
  CASE cell[1] = "num"   -> <<"fin", cell[2]>>
    [] cell[1] = "empty" -> <<"nan">>
    [] cell[1] = "text"  -> <<"nan">>
    [] cell[1] = "inf"   -> <<"inf">>
    [] cell[1] = "blank" -> <<"fin", 0>>
    [] cell[1] = "bool"  -> <<"fin", IF cell[2] THEN 1 ELSE 0>>

\* page.tsx 126-128: the number is stored, <<v>>, when it is finite; <<>> is an
\* absent field.
CellValue(cell) ==
  LET num == CellNumber(cell) IN IF num[1] = "fin" THEN <<num[2]>> ELSE <<>>

ParseRow(row, t) == [time |-> t, vals |-> [k \in COLUMN_KEYS |-> CellValue(row.cells[k])]]

\* page.tsx 116-131: the rows whose time parses, in file order.
RECURSIVE CollectRows(_, _)
CollectRows(file, raw) ==
  IF raw = <<>> THEN <<>>
  ELSE LET row == Head(raw)
           ts  == TimeStr(file, row)
           p   == DateParse(ts)
       IN IF ts[1] = "empty" \/ p = <<>>
          THEN CollectRows(file, Tail(raw))
          ELSE <<ParseRow(row, p[1])>> \o CollectRows(file, Tail(raw))

\* page.tsx 133: data.sort((a, b) => a.time - b.time)
SortByTimeUnstable(data) ==
  LET rev == [i \in 1..Len(data) |-> data[Len(data) + 1 - i]]
  IN StableSort([i \in 1..Len(rev) |-> <<rev[i].time, rev[i]>>])
SortByTime(data) == StableSort([i \in 1..Len(data) |-> <<data[i].time, data[i]>>])

\* page.tsx 134-140: drop a row whose time equals the last kept row's time.
RECURSIVE DedupFrom(_, _)
DedupFrom(dedup, data) ==
  IF data = <<>> THEN dedup
  ELSE LET r == Head(data)
       IN IF dedup # <<>> /\ r.time = dedup[Len(dedup)].time
          THEN DedupFrom(dedup, Tail(data))
          ELSE DedupFrom(Append(dedup, r), Tail(data))

DedupRows(data) == DedupFrom(<<>>, data)

\* The value the promise of parseTxtFile resolves to.
parseTxtFile(file) == DedupRows(SortByTime(CollectRows(file, file.rows)))

(***************************************************************************)
(* States in which only one of the two halves of the model moves.          *)
(***************************************************************************)
AppIdle ==
  /\ rows = <<>> /\ error = "" /\ selectedKey = "AccX(g)"
  /\ harmonicsCount = 0 /\ fminHz = <<0, 1>> /\ inflight = <<>>
  /\ last = [ev |-> "none"]
  /\ sampleHz = <<>> /\ relTimesSec = <<>> /\ series = <<>> /\ spectrum = <<>>
  /\ harmonicFreqs = <<>> /\ harmonicInfo = <<>> /\ equation = <<>>
  /\ reconstructed = <<>>

Call(result) ==
  /\ pc = "call"
  /\ fout' = result
  /\ pc' = "done"
  /\ UNCHANGED <<fin, appVars, memoVars>>

(***************************************************************************)
(* SpecIngest: parseTxtFile applied to every file of at most MaxIn rows.   *)
(***************************************************************************)
IngestTimeCells == {<<"empty">>, <<"bad">>} \cup {<<"ok", t>> : t \in 0..MaxT}
\* The AccX(g) cell tells the rows of a file apart.
IngestRows ==
  {[time |-> tc, cells |-> [k \in COLUMN_KEYS |->
                              IF k = "AccX(g)" THEN xc ELSE <<"empty">>]] :
     tc \in IngestTimeCells, xc \in {<<"num", 1>>, <<"num", 2>>}}
IngestFiles(max) == {[hasTime |-> h, rows |-> r] : h \in BOOLEAN, r \in SeqsUpTo(IngestRows, max)}

InitIngest == AppIdle /\ pc = "call" /\ fout = <<>> /\ fin \in IngestFiles(MaxIn)
IngestCall == Call(parseTxtFile(fin))
NextIngest == IngestCall
SpecIngest == InitIngest /\ [][NextIngest]_vars

(* C1: whatever the order of the input rows, the Series has strictly       *)
(* increasing timestamps, holds each distinct parseable timestamp of the   *)
(* input exactly once, and for a timestamp on several rows keeps the row   *)
(* that came first in the file.                                            *)
ParseableAt(file, i) == file.hasTime /\ file.rows[i].time[1] = "ok"
ParseableTimes(file) ==
  {file.rows[i].time[2] : i \in {j \in DOMAIN file.rows : ParseableAt(file, j)}}
FirstRowWith(file, t) ==
  LET I == {i \in DOMAIN file.rows : ParseableAt(file, i) /\ file.rows[i].time[2] = t}
  IN file.rows[CHOOSE i \in I : \A j \in I : i <= j]
StrictlyIncreasingTimes(rs) == \A i \in 1..(Len(rs) - 1) : rs[i].time < rs[i + 1].time
C1_IngestSortedFirstWins ==
  pc = "done" =>
    /\ StrictlyIncreasingTimes(fout)
    /\ {fout[i].time : i \in DOMAIN fout} = ParseableTimes(fin)
    /\ Len(fout) = Cardinality(ParseableTimes(fin))
    /\ \A i \in DOMAIN fout :
         fout[i].vals["AccX(g)"] = CellValue(FirstRowWith(fin, fout[i].time).cells["AccX(g)"])
\* An unsorted file with a timestamp on two rows of different content.
C1_Witness ==
  /\ pc = "done" /\ fin.hasTime /\ Len(fout) >= 2
  /\ \E i, j \in DOMAIN fin.rows :
       /\ i < j /\ ParseableAt(fin, i) /\ ParseableAt(fin, j)
       /\ fin.rows[i].time = fin.rows[j].time
       /\ fin.rows[i].cells # fin.rows[j].cells
  /\ \E i \in 1..(Len(fin.rows) - 1) :
       /\ ParseableAt(fin, i) /\ ParseableAt(fin, i + 1)
       /\ fin.rows[i].time[2] > fin.rows[i + 1].time[2]

(***************************************************************************)
(* SpecCells: parseTxtFile applied to every file of at most MaxCellRows    *)
(* rows whose AccX(g) cell is of any kind.                                 *)
(***************************************************************************)
CellKinds ==
  {<<"num", 0>>, <<"num", 1>>, <<"empty">>, <<"text">>, <<"inf">>, <<"blank">>,
   <<"bool", TRUE>>, <<"bool", FALSE>>}
CellTimeCells == {<<"bad">>, <<"ok", 0>>, <<"ok", 1>>}
CellRows ==
  {[time |-> tc, cells |-> [k \in COLUMN_KEYS |->
                              IF k = "AccX(g)" THEN xc ELSE <<"empty">>]] :
     tc \in CellTimeCells, xc \in CellKinds}
CellFiles(max) == {[hasTime |-> h, rows |-> r] : h \in BOOLEAN, r \in SeqsUpTo(CellRows, max)}

InitCells == AppIdle /\ pc = "call" /\ fout = <<>> /\ fin \in CellFiles(MaxCellRows)
CellsCall == Call(parseTxtFile(fin))
NextCells == CellsCall
SpecCells == InitCells /\ [][NextCells]_vars

\* C11: a file with a time header and a row whose time parses gives a Series
\* that is not empty; the Series has a sample only for a row whose time parsed;
\* and a sample has a value for a channel if and only if the cell of its row
\* was a finite number, which is then the value.
C11_IngestionIsLenient ==
  pc = "done" =>
    /\ (\E i \in DOMAIN fin.rows : ParseableAt(fin, i)) => Len(fout) > 0
    /\ {fout[i].time : i \in DOMAIN fout} = ParseableTimes(fin)
    /\ \A i \in DOMAIN fout : \A k \in COLUMN_KEYS :
         LET cell == FirstRowWith(fin, fout[i].time).cells[k]
         IN /\ fout[i].vals[k] # <<>> <=> cell[1] = "num"
            /\ cell[1] = "num" => fout[i].vals[k] = <<cell[2]>>

\* A row with a blank AccX(g) cell was parsed next to a row whose time does not
\* parse, and its sample holds 0.
C11_Witness ==
  /\ pc = "done" /\ fin.hasTime /\ Len(fin.rows) = 2 /\ Len(fout) = 1
  /\ FirstRowWith(fin, fout[1].time).cells["AccX(g)"] = <<"blank">>
  /\ fout[1].vals["AccX(g)"] = <<0>>

(***************************************************************************)
(* SamplingEstimator: estimateSamplingHz (page.tsx 152-165).               *)
(***************************************************************************)
\* page.tsx 154-158: the positive consecutive deltas, in order.
PositiveDeltas(rs) ==
  LET RECURSIVE From(_)
      From(i) == IF i > Len(rs) THEN <<>>
                 ELSE LET dt == rs[i].time - rs[i - 1].time
                      IN (IF dt > 0 THEN <<dt>> ELSE <<>>) \o From(i + 1)
  IN From(2)

SortAscending(xs) == StableSort([i \in 1..Len(xs) |-> <<xs[i], xs[i]>>])

\* page.tsx 161-163, doubled so that it stays an integer: 2 * medianMs.
TwiceMedianUpper(deltas) ==
  LET d == SortAscending(deltas) IN 2 * d[(Len(d) \div 2) + 1]
TwiceMedianMs(deltas) ==
  LET d   == SortAscending(deltas)
      mid == Len(d) \div 2          \* 0-based index
  IN IF Len(d) % 2 = 1 THEN 2 * d[mid + 1] ELSE d[mid] + d[mid + 1]

\* <<>> is null; otherwise the rational 1000 / medianMs.
estimateSamplingHz(rs) ==
  IF Len(rs) < 2 THEN <<>>
  ELSE LET deltas == PositiveDeltas(rs)
       IN IF Len(deltas) = 0 THEN <<>>
          ELSE Rat(2000, TwiceMedianMs(deltas))

(***************************************************************************)
(* SpecRate: estimateSamplingHz applied to every row list of at most       *)
(* MaxRateRows rows, sorted or not.                                        *)
(***************************************************************************)
NoVals == [k \in COLUMN_KEYS |-> <<>>]
RateInputs(max) ==
  {[i \in DOMAIN ts |-> [time |-> ts[i], vals |-> NoVals]] :
     ts \in SeqsUpTo(0..MaxRateT, max)}

InitRate == AppIdle /\ pc = "call" /\ fout = <<>> /\ fin \in RateInputs(MaxRateRows)
RateCall == Call(estimateSamplingHz(fin))
NextRate == RateCall
SpecRate == InitRate /\ [][NextRate]_vars

(* C3: the estimator returns 1000 / median of the positive consecutive     *)
(* deltas (mean of the two middle ones for an even count), and null        *)
(* exactly when there are fewer than 2 samples or no positive delta.       *)
\* The k-th smallest (k >= 1) of the values f[i], i \in I, by counting; and twice
\* their median (the two middle ones added when there is an even number).
KthSmallest(f, I, k) ==
  CHOOSE v \in {f[i] : i \in I} :
    /\ Cardinality({i \in I : f[i] < v}) < k
    /\ Cardinality({i \in I : f[i] <= v}) >= k
TwiceMedianByRank(f, I) ==
  LET n == Cardinality(I)
  IN IF n % 2 = 1 THEN 2 * KthSmallest(f, I, (n + 1) \div 2)
     ELSE KthSmallest(f, I, n \div 2) + KthSmallest(f, I, (n \div 2) + 1)
DeltasOf(rs) == [i \in 1..(Len(rs) - 1) |-> rs[i + 1].time - rs[i].time]
PositiveIdx(rs) == {i \in 1..(Len(rs) - 1) : DeltasOf(rs)[i] > 0}
C3_RateIsThousandOverMedian ==
  pc = "done" =>
    /\ (fout = <<>>) <=> (Len(fin) < 2 \/ PositiveIdx(fin) = {})
    /\ fout # <<>> =>
         /\ fout[2] > 0
         /\ fout[1] * TwiceMedianByRank(DeltasOf(fin), PositiveIdx(fin)) = 2000 * fout[2]
\* An even number of positive deltas whose two middle ones differ, and a
\* non-positive delta that is skipped.
C3_Witness ==
  /\ pc = "done" /\ fout # <<>>
  /\ Cardinality(PositiveIdx(fin)) = 2
  /\ KthSmallest(DeltasOf(fin), PositiveIdx(fin), 1)
       # KthSmallest(DeltasOf(fin), PositiveIdx(fin), 2)
  /\ Cardinality(PositiveIdx(fin)) < Len(fin) - 1

(***************************************************************************)
(* SpectralAnalyzer: computeFftWithPhase (page.tsx 167-199).               *)
(*                                                                         *)
(* fft.js computes the discrete Fourier transform of the zero-padded       *)
(* input.  The transform is modelled by its definition, in fixed point:    *)
(* the twiddle factors cos/sin(2 pi j / 1024) are rounded to 1/1000, so a  *)
(* real or imaginary part and a magnitude count units of 1/MagScale.  For  *)
(* fftSize <= 4 the twiddles are 0 and +-1 and the parts are exact.  The   *)
(* transform sizes are the powers of two up to 1024.                       *)
(***************************************************************************)
\* 1000 cos(2 pi m / 1024) rounded, for m = 0 .. 256.
CosQuarter ==
  <<1000, 1000, 1000, 1000, 1000, 1000, 999, 999, 999, 998, 998, 998, 997, 997, 996, 996,
     995, 995, 994, 993, 992, 992, 991, 990, 989, 988, 987, 986, 985, 984, 983, 982,
     981, 980, 978, 977, 976, 974, 973, 972, 970, 969, 967, 965, 964, 962, 960, 959,
     957, 955, 953, 951, 950, 948, 946, 944, 942, 939, 937, 935, 933, 931, 929, 926,
     924, 922, 919, 917, 914, 912, 909, 907, 904, 901, 899, 896, 893, 890, 888, 885,
     882, 879, 876, 873, 870, 867, 864, 861, 858, 855, 851, 848, 845, 842, 838, 835,
     831, 828, 825, 821, 818, 814, 810, 807, 803, 800, 796, 792, 788, 785, 781, 777,
     773, 769, 765, 761, 757, 753, 749, 745, 741, 737, 733, 728, 724, 720, 716, 711,
     707, 703, 698, 694, 690, 685, 681, 676, 672, 667, 662, 658, 653, 649, 644, 639,
     634, 630, 625, 620, 615, 610, 606, 601, 596, 591, 586, 581, 576, 571, 566, 561,
     556, 550, 545, 540, 535, 530, 525, 519, 514, 509, 504, 498, 493, 488, 482, 477,
     471, 466, 461, 455, 450, 444, 439, 433, 428, 422, 416, 411, 405, 400, 394, 388,
     383, 377, 371, 366, 360, 354, 348, 343, 337, 331, 325, 320, 314, 308, 302, 296,
     290, 284, 279, 273, 267, 261, 255, 249, 243, 237, 231, 225, 219, 213, 207, 201,
     195, 189, 183, 177, 171, 165, 159, 153, 147, 141, 135, 128, 122, 116, 110, 104,
     98, 92, 86, 80, 74, 67, 61, 55, 49, 43, 37, 31, 25, 18, 12, 6,
     0>>
MagScale == CosQuarter[1]
\* 1000 cos and 1000 sin of 2 pi m / 1024, m in 0 .. 1023, by symmetry.
CosWave(m) ==
  IF m <= 256 THEN CosQuarter[m + 1]
  ELSE IF m <= 512 THEN -CosQuarter[(512 - m) + 1]
  ELSE IF m <= 768 THEN -CosQuarter[(m - 512) + 1]
  ELSE CosQuarter[(1024 - m) + 1]
SinWave(m) == CosWave((m + 768) % 1024)
CosTw(j, N) == CosWave((j % N) * (1024 \div N))
SinTw(j, N) == SinWave((j % N) * (1024 \div N))

\* Math.ceil(Math.log2(n)) for n >= 1: the least e with 2^e >= n.
RECURSIVE CeilLog2From(_, _)
CeilLog2From(n, e) == IF 2 ^ e >= n THEN e ELSE CeilLog2From(n, e + 1)
CeilLog2(n) == CeilLog2From(n, 0)
FloorLog2(n) == IF 2 ^ CeilLog2(n) = n THEN CeilLog2(n) ELSE CeilLog2(n) - 1

\* 1 << e on 32-bit integers: the shift count is taken modulo 32 and bit 31 is
\* the sign.
ShiftLeftOne(e) ==
  LET k == e % 32 IN IF k = 31 THEN (-(2 ^ 30)) * 2 ELSE 2 ^ k

\* page.tsx 169
Pow2SizeFloor(N) == ShiftLeftOne(FloorLog2(Max(2, N)))
Pow2Size(N) == ShiftLeftOne(CeilLog2(Max(2, N)))

\* Math.hypot on fixed-point parts: the integer square root.  Parts of 2^15 and
\* more are scaled down before they are squared and the root scaled up.
RECURSIVE IsqrtBetween(_, _, _)
IsqrtBetween(x, lo, hi) ==
  IF lo >= hi THEN lo
  ELSE LET mid == (lo + hi + 1) \div 2
       IN IF mid * mid <= x THEN IsqrtBetween(x, mid, hi)
          ELSE IsqrtBetween(x, lo, mid - 1)
Isqrt(x) == IsqrtBetween(x, 0, 46340)
Hypot(re, im) ==
  LET m == Max(Abs(re), Abs(im))
      s == (m \div 32768) + 1
  IN s * Isqrt((Abs(re) \div s) * (Abs(re) \div s) + (Abs(im) \div s) * (Abs(im) \div s))

\* page.tsx 171-179: bin k of the transform of acc zero-padded to pow2, <<re, im>>.
TransformBin(acc, pow2, k) ==
  <<SeqSum([n \in 1..Len(acc) |-> acc[n] * CosTw(k * (n - 1), pow2)]),
    -SeqSum([n \in 1..Len(acc) |-> acc[n] * SinTw(k * (n - 1), pow2)])>>

\* page.tsx 181-198.  A phase is kept as the arguments of Math.atan2(im, re).
computeFftWithPhase(acc, hz) ==
  LET pow2 == Pow2Size(Len(acc))
      half == pow2 \div 2
      out  == [k \in 0..half |-> TransformBin(acc, pow2, k)]
  IN [freqs   |-> [i \in 1..(half + 1) |-> Rat(hz[1] * (i - 1), hz[2] * pow2)],
      mags    |-> [i \in 1..(half + 1) |-> Hypot(out[i - 1][1], out[i - 1][2])],
      phases  |-> [i \in 1..(half + 1) |-> <<out[i - 1][2], out[i - 1][1]>>],
      fftSize |-> pow2]

(***************************************************************************)
(* SpecFft: computeFftWithPhase applied to every sequence of at most       *)
(* MaxFftLen samples and a few sampling rates.                             *)
(***************************************************************************)
SampleValues == {-1, 0, 1}
FftRates == {<<100, 1>>, <<1000, 3>>}
FftInputs(max) == {[acc |-> a, hz |-> h] : a \in SeqsUpTo(SampleValues, max), h \in FftRates}

InitFft == AppIdle /\ pc = "call" /\ fout = <<>> /\ fin \in FftInputs(MaxFftLen)
FftCall == Call(computeFftWithPhase(fin.acc, fin.hz))
NextFft == FftCall
SpecFft == InitFft /\ [][NextFft]_vars

(* C4: fftSize is the smallest power of two >= max(2, len); frequencies,   *)
(* magnitudes and phases all have length fftSize/2 + 1; frequency[k] =     *)
(* k * Fs / fftSize for every bin k; every magnitude is >= 0.              *)
C4_SpectrumShape ==
  pc = "done" =>
    LET want == Max(2, Len(fin.acc))
        n    == fout.fftSize
    IN /\ \E e \in 1..31 : n = 2 ^ e
       /\ n >= want
       /\ n \div 2 < want
       /\ Len(fout.freqs) = (n \div 2) + 1
       /\ Len(fout.mags) = (n \div 2) + 1
       /\ Len(fout.phases) = (n \div 2) + 1
       /\ \A k \in 0..(n \div 2) :
            /\ fout.freqs[k + 1][1] * fin.hz[2] * n = k * fin.hz[1] * fout.freqs[k + 1][2]
            /\ fout.freqs[k + 1][2] > 0
            /\ fout.mags[k + 1] >= 0
\* A length that is not a power of two, padded to 8, with a non-zero bin.
C4_Witness ==
  /\ pc = "done" /\ Len(fin.acc) = 5 /\ fout.fftSize = 8
  /\ \E k \in 2..4 : fout.mags[k] > 0 /\ fout.freqs[k][1] > 0

(***************************************************************************)
(* PeakDetector: median and detectPeaksIgnoringNoiseFloor (page.tsx        *)
(* 204-240).                                                               *)
(*                                                                         *)
(* Magnitudes are integers, so a median is a multiple of 1/2 and the       *)
(* median absolute deviation a multiple of 1/4: both are carried as        *)
(* integers (twice, four times the value).  The floor 1e-12 is far below   *)
(* 1/4 of a unit; a threshold or a residual is [q, e], standing for        *)
(* q/4 + e * 1e-12, and such values compare lexicographically.             *)
(***************************************************************************)
\* page.tsx 204-209, doubled: 2 * median(values).
TwiceMedian(values) ==
  IF Len(values) = 0 THEN 0
  ELSE LET arr == SortAscending(values)
           mid == Len(arr) \div 2
       IN IF Len(arr) % 2 = 1 THEN 2 * arr[mid + 1] ELSE arr[mid] + arr[mid + 1]

\* page.tsx 223: the magnitudes of the bins at or above fminHz (1-based bins here).
MagsIn(sp, fmin, n) ==
  LET kept == SelectSeq(Indices(1, n), LAMBDA i : RatLeq(fmin, sp.freqs[i]))
  IN [j \in 1..Len(kept) |-> sp.mags[kept[j]]]

\* page.tsx 225-228
Threshold(magsIn) ==
  LET med2   == TwiceMedian(magsIn)
      absDev == [i \in 1..Len(magsIn) |-> Abs(2 * magsIn[i] - med2)]   \* halves
      mad4   == TwiceMedian(absDev)                                    \* quarters
  IN IF mad4 > 0 THEN [q |-> 2 * med2 + 3 * mad4, e |-> 0]
                 ELSE [q |-> 2 * med2, e |-> 3]

\* val > threshold, val - threshold
Exceeds(val, thr) == 4 * val > thr.q \/ (4 * val = thr.q /\ 0 > thr.e)
Residual(val, thr) == [q |-> 4 * val - thr.q, e |-> -thr.e]

\* page.tsx 234: above the threshold and a strict local maximum (1-based bin i).
IsPeakOrPlateau(sp, i, thr) ==
  /\ Exceeds(sp.mags[i], thr)
  /\ sp.mags[i] >= sp.mags[i - 1]
  /\ sp.mags[i] >= sp.mags[i + 1]
IsPeak(sp, i, thr) ==
  /\ Exceeds(sp.mags[i], thr)
  /\ sp.mags[i] > sp.mags[i - 1]
  /\ sp.mags[i] > sp.mags[i + 1]

\* page.tsx 231-237: the peaks in bin order; index is the 0-based bin.
PeaksFrom(sp, fmin, thr, first, n) ==
  LET kept == SelectSeq(Indices(first, n - 1),
                        LAMBDA i : RatLeq(fmin, sp.freqs[i]) /\ IsPeak(sp, i, thr))
  IN [j \in 1..Len(kept) |->
        [index |-> kept[j] - 1, freq |-> sp.freqs[kept[j]], mag |-> sp.mags[kept[j]],
         residual |-> Residual(sp.mags[kept[j]], thr)]]

\* page.tsx 238: peaks.sort((a, b) => b.residual - a.residual)
SortByResidualDesc(peaks) ==
  StableSort([i \in 1..Len(peaks) |-> <<-peaks[i].residual.q, peaks[i]>>])

detectPeaksIgnoringNoiseFloor(sp, fmin) ==
  LET n == Min(Len(sp.freqs), Len(sp.mags))
  IN IF n < 5 THEN <<>>
     ELSE LET magsIn == MagsIn(sp, fmin, n)
          IN IF Len(magsIn) < 5 THEN <<>>
             ELSE SortByResidualDesc(PeaksFrom(sp, fmin, Threshold(magsIn), 2, n))

(***************************************************************************)
(* SpecPeaks: detectPeaksIgnoringNoiseFloor applied to every spectrum of   *)
(* at most MaxBins bins one hertz apart with magnitudes in MagValues, and  *)
(* to cutoffs on and between the bins.                                     *)
(***************************************************************************)
MagValues == {0, 1, 2, 5}
PeakSpectra(max) ==
  {[freqs |-> [i \in DOMAIN m |-> <<i - 1, 1>>], mags |-> m] :
     m \in SeqsUpTo(MagValues, max)}
PeakCutoffs == {<<0, 1>>, <<1, 2>>, <<1, 1>>}
PeakInputs(max) == {[sp |-> sp, fmin |-> f] : sp \in PeakSpectra(max), f \in PeakCutoffs}

InitPeaks == AppIdle /\ pc = "call" /\ fout = <<>> /\ fin \in PeakInputs(MaxBins)
PeaksCall == Call(detectPeaksIgnoringNoiseFloor(fin.sp, fin.fmin))
NextPeaks == PeaksCall
SpecPeaks == InitPeaks /\ [][NextPeaks]_vars

(* C5: no peaks when fewer than 5 bins have frequency >= fmin; otherwise   *)
(* exactly the bins that are not the first or last bin, have frequency >=  *)
(* fmin, magnitude > threshold and magnitude strictly greater than both    *)
(* neighbours, where threshold = med + 3 * max(1e-12, median(|v - med|))   *)
(* over the magnitudes of the bins with frequency >= fmin; each peak       *)
(* carries residual = magnitude - threshold.                               *)
CandidateBins(sp, fmin) ==
  {i \in DOMAIN sp.mags : sp.freqs[i][1] * fmin[2] >= fmin[1] * sp.freqs[i][2]}
\* Four times the median absolute deviation, and four times the threshold with
\* the floor of 1e-12 left out (it is what is added when the MAD is 0).
FourMad(sp, C) ==
  LET med2 == TwiceMedianByRank(sp.mags, C)
      dev  == [i \in DOMAIN sp.mags |-> Abs(2 * sp.mags[i] - med2)]
  IN TwiceMedianByRank(dev, C)
FourThreshold(sp, C) == 2 * TwiceMedianByRank(sp.mags, C) + 3 * FourMad(sp, C)
MadIsZero(sp, C) == FourMad(sp, C) = 0
C5_PeaksAreStrictMaximaAboveThreshold ==
  pc = "done" =>
    LET sp   == fin.sp
        C    == CandidateBins(sp, fin.fmin)
        thr4 == FourThreshold(sp, C)
        zero == MadIsZero(sp, C)
        want == {i \in C : /\ 1 < i /\ i < Len(sp.mags)
                           /\ 4 * sp.mags[i] > thr4
                           /\ sp.mags[i] > sp.mags[i - 1]
                           /\ sp.mags[i] > sp.mags[i + 1]}
    IN IF Cardinality(C) < 5 THEN fout = <<>>
       ELSE /\ {fout[j].index + 1 : j \in DOMAIN fout} = want
            /\ Len(fout) = Cardinality(want)
            /\ \A j \in DOMAIN fout :
                 LET i == fout[j].index + 1
                 IN /\ fout[j].freq = sp.freqs[i]
                    /\ fout[j].mag = sp.mags[i]
                    /\ fout[j].residual.q = 4 * sp.mags[i] - thr4
                    /\ fout[j].residual.e = IF zero THEN -3 ELSE 0
\* A peak above a threshold with a non-zero MAD, under a cutoff that removes
\* a bin whose magnitude would have changed the median.
C5_Witness ==
  /\ pc = "done" /\ Len(fout) >= 1
  /\ fin.fmin # <<0, 1>>
  /\ ~MadIsZero(fin.sp, CandidateBins(fin.sp, fin.fmin))
  /\ FourThreshold(fin.sp, CandidateBins(fin.sp, fin.fmin))
       # FourThreshold(fin.sp, DOMAIN fin.sp.mags)

(***************************************************************************)
(* HarmonicSelector: getHarmonicFrequencies (page.tsx 244-256) and the     *)
(* slice of harmonicInfo (page.tsx 415-417).                               *)
(***************************************************************************)
\* page.tsx 247: .filter((p) => p.freq >= fminHz)
FilterAtLeast(peaks, fmin) == SelectSeq(peaks, LAMBDA p : RatLeq(fmin, p.freq))

\* page.tsx 248: .sort((a, b) => b.mag - a.mag)
SortByMagAsc(peaks) == StableSort([i \in 1..Len(peaks) |-> <<peaks[i].mag, peaks[i]>>])
SortByMagDesc(peaks) == StableSort([i \in 1..Len(peaks) |-> <<-peaks[i].mag, peaks[i]>>])

\* Math.abs(f - g) > 1e-6, on rationals: n/d > 1/10^6 iff n > floor(d / 10^6).
FartherThanMicro(f, g) ==
  LET d == RatAbs(RatSub(f, g)) IN d[1] > d[2] \div 1000000

\* page.tsx 251-254
RECURSIVE DedupNearFrom(_, _)
DedupNearFrom(dedup, fs) ==
  IF fs = <<>> THEN dedup
  ELSE IF dedup = <<>> \/ FartherThanMicro(Head(fs), dedup[Len(dedup)])
       THEN DedupNearFrom(Append(dedup, Head(fs)), Tail(fs))
       ELSE DedupNearFrom(dedup, Tail(fs))

getHarmonicFrequencies(sp, fmin) ==
  LET peaks == SortByMagDesc(FilterAtLeast(detectPeaksIgnoringNoiseFloor(sp, fmin), fmin))
  IN DedupNearFrom(<<>>, [i \in 1..Len(peaks) |-> peaks[i].freq])

\* Array.prototype.slice(0, k) for k >= 0
Slice(arr, k) == SubSeq(arr, 1, Min(k, Len(arr)))

\* page.tsx 417 (and 477 before its range filter): the frequencies selected.
ChosenFreqs(freqs, count) == Slice(freqs, count)

(***************************************************************************)
(* SpecHarm: the selection applied to every spectrum of at most            *)
(* MaxHarmBins bins, one hertz or 0.4 microhertz apart, and every count    *)
(* 0..MaxK.                                                                *)
(***************************************************************************)
HarmMagValues == {0, 1, 3}
HarmAxes == {[bin |-> <<1, 1>>, fmin |-> <<0, 1>>],
             [bin |-> <<1, 1>>, fmin |-> <<2, 1>>],
             [bin |-> <<1, 2500000>>, fmin |-> <<0, 1>>]}
HarmInputs(max) ==
  {[sp |-> [freqs |-> [i \in DOMAIN m |-> RatMulInt(ax.bin, i - 1)], mags |-> m],
    bin |-> ax.bin, fmin |-> ax.fmin, count |-> k] :
     m \in SeqsUpTo(HarmMagValues, max), ax \in HarmAxes, k \in 0..MaxK}

InitHarm == AppIdle /\ pc = "call" /\ fout = <<>> /\ fin \in HarmInputs(MaxHarmBins)
HarmCall == Call(ChosenFreqs(getHarmonicFrequencies(fin.sp, fin.fmin), fin.count))
NextHarm == HarmCall
SpecHarm == InitHarm /\ [][NextHarm]_vars

(* C6: the selected harmonics are the first min(K, available) entries of   *)
(* the peaks ordered by non-increasing raw magnitude after dropping any    *)
(* frequency within 1e-6 Hz of the previously kept one; K = 0 yields an    *)
(* empty list, K larger than the number available yields exactly the       *)
(* available ones.                                                         *)
Perms(n) == {f \in [1..n -> 1..n] : \A i, j \in 1..n : f[i] = f[j] => i = j}
\* The walk over the ranked peaks keeping a peak more than 1e-6 Hz from the last
\* kept one: peak i is kept iff it is the first, or its bin lies more than
\* 1e-6 Hz / (bin width) bins from the bin of the latest peak kept before it.
KeptIdx(ranked, bin) ==
  LET RECURSIVE Upto(_)
      Upto(i) ==
        IF i = 0 THEN {}
        ELSE LET K == Upto(i - 1)
                 lastKept == CHOOSE k \in K : \A j \in K : j <= k
             IN IF K = {} THEN {i}
                ELSE IF Abs(ranked[i].index - ranked[lastKept].index) * bin[1] * 1000000 > bin[2]
                     THEN K \cup {i} ELSE K
  IN Upto(Len(ranked))
C6_SelectionIsPrefixOfRankedPeaks ==
  pc = "done" =>
    LET P == detectPeaksIgnoringNoiseFloor(fin.sp, fin.fmin)
    IN \E perm \in Perms(Len(P)) :
         LET ranked == [i \in 1..Len(P) |-> P[perm[i]]]
             kept   == KeptIdx(ranked, fin.bin)
             avail  == Cardinality(kept)
         IN /\ \A i \in 1..(Len(P) - 1) : ranked[i].mag >= ranked[i + 1].mag
            /\ Len(fout) = Min(fin.count, avail)
            /\ \A j \in DOMAIN fout :
                 \E i \in kept : /\ fout[j] = ranked[i].freq
                                 /\ Cardinality({k \in kept : k < i}) = j - 1
\* Three peaks of two different magnitudes, one of them within 1e-6 Hz of the
\* one kept before it and dropped, and a count that cuts the list.
C6_Witness ==
  /\ pc = "done"
  /\ LET P == detectPeaksIgnoringNoiseFloor(fin.sp, fin.fmin)
     IN Len(P) = 3 /\ P[1].mag > P[3].mag
  /\ Len(getHarmonicFrequencies(fin.sp, fin.fmin)) = 2
  /\ fin.count = 1 /\ Len(fout) = 1

(***************************************************************************)
(* The files loaded into the page.                                         *)
(***************************************************************************)
\* The files a load may deliver: n rows at 10 ms, 20 ms, ... whose AccX(g)
\* follows a wave and whose AccY(g) is 1 on the first three rows and text after
\* them; the same with the AccX(g) cell of the last of MaxRows rows empty; a file
\* without a `time` column; a file none of whose time cells parses.
Waves == <<<<1, 0, -1, 0, 1, 0, -1, 0>>, <<2, 0, 0, 0, -2, 0, 0, 0>>>>
WaveRow(w, i, hole) ==
  [time  |-> <<"ok", i * 10>>,
   cells |-> [k \in COLUMN_KEYS |->
                IF k = "AccX(g)"
                THEN (IF i = hole THEN <<"empty">> ELSE <<"num", Waves[w][((i - 1) % 8) + 1]>>)
                ELSE (IF i <= 3 THEN <<"num", 1>> ELSE <<"text">>)]]
WaveFile(n, w, hole) ==
  [hasTime |-> TRUE, rows |-> [i \in 1..n |-> WaveRow(w, i, hole)]]
NoTimeFile == [hasTime |-> FALSE, rows |-> WaveFile(2, 1, 0).rows]
BadTimesFile ==
  [hasTime |-> TRUE,
   rows |-> [i \in 1..2 |-> [WaveRow(1, i, 0) EXCEPT !.time = <<"bad">>]]]
AppFiles ==
  {WaveFile(n, w, hole) : n \in 0..MaxRows, w \in DOMAIN Waves, hole \in {0, MaxRows}}
    \cup {NoTimeFile, BadTimesFile}

(***************************************************************************)
(* The derived values of Home (page.tsx 383-529), each as the function of  *)
(* its inputs that its useMemo callback computes.                          *)
(***************************************************************************)
\* page.tsx 383
SampleHzOf(rs) == IF rs = <<>> THEN <<>> ELSE estimateSamplingHz(rs)

\* page.tsx 384-396: seconds since the first row, as a running maximum.
RelTime(rs, i) == Rat(rs[i].time - rs[1].time, 1000)
RECURSIVE RelTimesFrom(_, _, _)
RelTimesFrom(rs, i, prev) ==
  IF i > Len(rs) THEN <<>>
  ELSE LET t   == RelTime(rs, i)
           cur == IF i = 1 THEN <<0, 1>> ELSE IF RatLess(prev, t) THEN t ELSE prev
       IN <<cur>> \o RelTimesFrom(rs, i + 1, cur)
RelTimesSecOf(rs) == IF Len(rs) = 0 THEN <<>> ELSE RelTimesFrom(rs, 1, <<0, 1>>)

\* page.tsx 397: r[selectedKey] ?? NaN; <<>> is NaN.
SeriesOf(rs, key) == [i \in 1..Len(rs) |-> rs[i].vals[key]]

\* series.filter(Number.isFinite)
RECURSIVE Clean(_)
Clean(ser) ==
  IF ser = <<>> THEN <<>>
  ELSE (IF Head(ser) # <<>> THEN <<Head(ser)[1]>> ELSE <<>>) \o Clean(Tail(ser))

\* parseTxtFile and the transform on the inputs the page can meet, evaluated
\* once; ParsedFile and Transformed are parseTxtFile and computeFftWithPhase.
ParseTable == [f \in AppFiles |-> parseTxtFile(f)]
ParsedFile(file) == IF file \in AppFiles THEN ParseTable[file] ELSE parseTxtFile(file)
FftTable ==
  [a \in {<<Clean(SeriesOf(ParseTable[f], k)), estimateSamplingHz(ParseTable[f])>> :
            f \in {g \in AppFiles : Len(ParseTable[g]) >= 2}, k \in COLUMN_KEYS}
     |-> computeFftWithPhase(a[1], a[2])]
Transformed(acc, hz) ==
  IF <<acc, hz>> \in DOMAIN FftTable THEN FftTable[<<acc, hz>>]
  ELSE computeFftWithPhase(acc, hz)

\* page.tsx 402: clean.length < 4
TooFewSamplesLax(clean) == Len(clean) < 3
TooFewSamples(clean) == Len(clean) < 4

\* page.tsx 399-407
SpectrumOf(rs, hz, ser) ==
  IF rs = <<>> \/ hz = <<>> THEN <<>>
  ELSE LET clean == Clean(ser)
       IN IF TooFewSamples(clean) THEN <<>> ELSE Transformed(clean, hz)

\* page.tsx 409-412
HarmonicFreqsOf(sp, fmin) == IF sp = <<>> THEN <<>> ELSE getHarmonicFrequencies(sp, fmin)

\* page.tsx 422-430 and 489-494: the first bin at the least distance from f (1-based).
\* page.tsx 426 and 492: d < best
CloserOrEqual(d, best) == RatLeq(d, best)
Closer(d, best) == RatLess(d, best)
\* The index the scan holds after the bins lo .. hi, by halves: the index held
\* after the first half is replaced by the one of the second half when that one
\* is closer.
RECURSIVE NearestFrom(_, _, _, _)
NearestFrom(freqs, f, lo, hi) ==
  IF lo >= hi THEN lo
  ELSE LET mid   == (lo + hi) \div 2
           left  == NearestFrom(freqs, f, lo, mid)
           right == NearestFrom(freqs, f, mid + 1, hi)
       IN IF Closer(RatAbs(RatSub(freqs[right], f)), RatAbs(RatSub(freqs[left], f)))
          THEN right ELSE left
NearestBinBefore(freqs, f) == Max(1, NearestFrom(freqs, f, 1, Len(freqs)) - 1)
NearestBin(freqs, f) == NearestFrom(freqs, f, 1, Len(freqs))

\* page.tsx 433 and 504 (coherentGain = 1): the amplitude, in magnitude units.
AmplitudeOneSided(sp, idx) == Rat(sp.mags[idx], sp.fftSize)
Amplitude(sp, idx) ==
  IF idx = 1 THEN Rat(sp.mags[idx], sp.fftSize) ELSE Rat(2 * sp.mags[idx], sp.fftSize)

\* page.tsx 414-443
HarmonicInfoOf(sp, count, freqs) ==
  IF sp = <<>> \/ count = 0 THEN <<>>
  ELSE LET chosen == ChosenFreqs(freqs, count)
       IN [j \in 1..Len(chosen) |->
             LET idx == NearestBin(sp.freqs, chosen[j])
             IN [freq |-> chosen[j], mag |-> sp.mags[idx],
                 phase |-> sp.phases[idx], amp |-> Amplitude(sp, idx)]]

\* Number.prototype.toFixed(4) of a non-negative rational: the nearest multiple of
\* 1e-4, the larger one on a tie, as a count of 1e-4.
ToFixed4(r) == (2 * r[1] * 10000 + r[2]) \div (2 * r[2])

\* page.tsx 445-455: the terms of "y(t) = ..." in order, <<>> for the empty string.
\* An amplitude is printed in real units (magnitude units / MagScale); a phase
\* atan2(im, re) is >= 0 iff im >= 0, and its absolute value is kept symbolic.
EquationOf(info) ==
  [j \in 1..Len(info) |->
     [amp   |-> ToFixed4(<<info[j].amp[1], info[j].amp[2] * MagScale>>),
      freq  |-> ToFixed4(info[j].freq),
      sign  |-> IF info[j].phase[1] >= 0 THEN "+" ELSE "-",
      phase |-> info[j].phase]]

\* page.tsx 477: the selected frequencies within [fmin, Nyquist].
RECURSIVE FilterRange(_, _, _)
FilterRange(fs, fmin, nyq) ==
  IF fs = <<>> THEN <<>>
  ELSE (IF RatLeq(fmin, Head(fs)) /\ RatLeq(Head(fs), nyq) THEN <<Head(fs)>> ELSE <<>>)
         \o FilterRange(Tail(fs), fmin, nyq)

\* page.tsx 517: the finite values summed, divided by series.length.
SumFinite(ser) == SeqSum([i \in DOMAIN ser |-> IF ser[i] # <<>> THEN ser[i][1] ELSE 0])
MeanOrig(ser) == Rat(SumFinite(ser), Len(ser))

\* page.tsx 487-514: the cosine terms accumulated into yRecon[i], in order.  A
\* term is amp * cos(2 pi freq t + phase); the cosine is left uninterpreted.
CosTerms(sp, chosen, t) ==
  [j \in 1..Len(chosen) |->
     LET idx == NearestBin(sp.freqs, chosen[j])
     IN [amp |-> Amplitude(sp, idx), freq |-> chosen[j], t |-> t, phase |-> sp.phases[idx]]]

\* page.tsx 518: the constants added to every sample after the harmonics.
AddedConstants(ser, chosen) == <<MeanOrig(ser)>>

\* page.tsx 485: new Array(time.length)
ReconLengthClean(time, ser) == Len(Clean(ser))
ReconLength(time, ser) == Len(time)

\* page.tsx 472-529: null (<<>>), or [x, y] with y[i] the terms and the constants
\* summed into sample i.
ReconstructedOf(sp, rs, hz, time, freqs, count, fmin, ser) ==
  IF sp = <<>> \/ rs = <<>> \/ hz = <<>> THEN <<>>
  ELSE IF Len(time) = 0 THEN <<>>
  ELSE LET nyq    == RatDivInt(hz, 2)
           chosen == FilterRange(Slice(freqs, Min(count, Len(freqs))), fmin, nyq)
       IN IF Len(chosen) = 0 THEN <<>>
          ELSE [x |-> [i \in 1..Len(rs) |-> rs[i].time],
                y |-> [i \in 1..ReconLength(time, ser) |->
                         [cos    |-> CosTerms(sp, chosen, time[i]),
                          consts |-> AddedConstants(ser, chosen)]]]

(***************************************************************************)
(* SpecTable: the harmonic table (harmonicInfo) and the cosine terms of    *)
(* the reconstruction computed from the same spectrum, harmonic            *)
(* frequencies, count and cutoff.  The frequencies are any multiples of    *)
(* half a bin, so that a frequency may lie on a bin, between two bins at   *)
(* the same distance, or beyond the last bin.                              *)
(***************************************************************************)
\* A spectrum of n bins 1 Hz apart whose magnitudes differ from bin to bin.
TableMags(n, up) == [i \in 1..n |-> IF up THEN i ELSE n + 1 - i]
TableSpectrum(m) ==
  [freqs |-> [i \in DOMAIN m |-> <<i - 1, 1>>], mags |-> m,
   phases |-> [i \in DOMAIN m |-> <<i, 1>>], fftSize |-> 2 * (Len(m) - 1)]
TableSpectra(max) == {TableSpectrum(TableMags(n, up)) : n \in 2..max, up \in BOOLEAN}
TableFreqs(sp) == {Rat(h, 2) : h \in 0..(2 * Len(sp.freqs))}
TableInputs(max) ==
  UNION {{[sp |-> sp, freqs |-> fs, count |-> c, fmin |-> fm] :
            fs \in SeqsUpTo(TableFreqs(sp), MaxTableFreqs),
            c \in 0..MaxTableFreqs, fm \in {<<0, 1>>, <<1, 1>>}} : sp \in TableSpectra(max)}

\* page.tsx 414-443 and 477-514 on one input; the time of the terms is 0.
TableAndTerms(in) ==
  LET nyq    == in.sp.freqs[Len(in.sp.freqs)]
      chosen == FilterRange(Slice(in.freqs, Min(in.count, Len(in.freqs))), in.fmin, nyq)
  IN [info  |-> HarmonicInfoOf(in.sp, in.count, in.freqs),
      terms |-> CosTerms(in.sp, chosen, <<0, 1>>)]

InitTable == AppIdle /\ pc = "call" /\ fout = <<>> /\ fin \in TableInputs(MaxTableBins)
TableCall == Call(TableAndTerms(fin))
NextTable == TableCall
SpecTable == InitTable /\ [][NextTable]_vars

\* The bin nearest to f, the lowest one on a tie (1-based).
IsNearestBin(freqs, f, idx) ==
  /\ idx \in DOMAIN freqs
  /\ \A i \in DOMAIN freqs : RatLeq(RatAbs(RatSub(freqs[idx], f)), RatAbs(RatSub(freqs[i], f)))
  /\ \A i \in 1..(idx - 1) : RatLess(RatAbs(RatSub(freqs[idx], f)), RatAbs(RatSub(freqs[i], f)))

\* The amplitude and phase of a harmonic at f read from the spectrum.
ReadsNearestBin(sp, e) ==
  \E idx \in DOMAIN sp.freqs :
    /\ IsNearestBin(sp.freqs, e.freq, idx)
    /\ e.phase = sp.phases[idx]
    /\ e.amp = IF idx = 1 THEN Rat(sp.mags[idx], sp.fftSize)
               ELSE Rat(2 * sp.mags[idx], sp.fftSize)

\* C12: every row of the harmonic table and every term of the reconstruction
\* takes its phase from the bin nearest to its frequency, the lowest on a tie,
\* and its amplitude is magnitude / fftSize at bin 0 and 2 magnitude / fftSize
\* elsewhere; the table's magnitude is that bin's; and a term of the
\* reconstruction has the amplitude and phase of the table's row of the same
\* frequency.
C12_TableAndReconstructionReadSameBin ==
  pc = "done" =>
    /\ \A j \in DOMAIN fout.info :
         /\ ReadsNearestBin(fin.sp, fout.info[j])
         /\ \E idx \in DOMAIN fin.sp.freqs :
              /\ IsNearestBin(fin.sp.freqs, fout.info[j].freq, idx)
              /\ fout.info[j].mag = fin.sp.mags[idx]
    /\ \A j \in DOMAIN fout.terms :
         /\ ReadsNearestBin(fin.sp, fout.terms[j])
         /\ \E i \in DOMAIN fout.info :
              /\ fout.info[i].freq = fout.terms[j].freq
              /\ fout.info[i].amp = fout.terms[j].amp
              /\ fout.info[i].phase = fout.terms[j].phase

\* Two harmonics, one read from bin 0 and one halfway between two bins of
\* different magnitude, both in the table and in the reconstruction.
C12_Witness ==
  /\ pc = "done" /\ Len(fout.info) = 2 /\ Len(fout.terms) = 2
  /\ fout.info[1].freq = <<0, 1>>
  /\ fout.info[2].freq = <<3, 2>>
  /\ fin.sp.mags[2] # fin.sp.mags[3]
  /\ fout.terms[2].amp = Rat(2 * fin.sp.mags[2], fin.sp.fftSize)

(***************************************************************************)
(* SpecLookup: peak detection, harmonic selection, the harmonic table and  *)
(* the terms of the reconstruction chained on one spectrum, as the page    *)
(* chains them, for every spectrum of at most MaxLookupBins bins (one      *)
(* hertz apart under a cutoff of 2 Hz, or 0.4 microhertz apart under a     *)
(* cutoff of 0; the last bin at Fs/2) and every count 0..MaxLookupCount.   *)
(***************************************************************************)
MaxLookupBins  == 7   \* bins of a spectrum handed to the chain
MaxLookupCount == 2   \* largest harmonic count handed to it
LookupAxes == {[bin |-> <<1, 1>>, fmin |-> <<2, 1>>],
               [bin |-> <<1, 2500000>>, fmin |-> <<0, 1>>]}
LookupInputs(max) ==
  {[sp |-> [freqs |-> [i \in DOMAIN m |-> RatMulInt(ax.bin, i - 1)], mags |-> m,
            phases |-> [i \in DOMAIN m |-> <<i, 1>>], fftSize |-> 2 * (Len(m) - 1)],
    fmin |-> ax.fmin, count |-> k] :
     m \in SeqsUpTo(HarmMagValues, max) \ {<<>>}, ax \in LookupAxes,
     k \in 0..MaxLookupCount}

\* page.tsx 409-443 and 477-514 on one spectrum; `bins` are the values of idx
\* (0-based) after the scans of page.tsx 422-430, the time of the terms is 0.
LookupOf(in) ==
  LET hf     == HarmonicFreqsOf(in.sp, in.fmin)
      picked == IF in.count = 0 THEN <<>> ELSE ChosenFreqs(hf, in.count)
      nyq    == in.sp.freqs[Len(in.sp.freqs)]
      chosen == FilterRange(Slice(hf, Min(in.count, Len(hf))), in.fmin, nyq)
  IN [bins  |-> [j \in 1..Len(picked) |-> NearestBin(in.sp.freqs, picked[j]) - 1],
      info  |-> HarmonicInfoOf(in.sp, in.count, hf),
      terms |-> CosTerms(in.sp, chosen, <<0, 1>>)]

InitLookup == AppIdle /\ pc = "call" /\ fout = <<>> /\ fin \in LookupInputs(MaxLookupBins)
LookupCall == Call(LookupOf(fin))
NextLookup == LookupCall
SpecLookup == InitLookup /\ [][NextLookup]_vars

\* C16: each row of the harmonic table is read at the bin of a detected peak of
\* its frequency: the bin found by the scan is that peak's, the row's magnitude
\* is the peak's, the bin is neither bin 0 nor the last bin, and the amplitude
\* of the row and of the term of the reconstruction is 2 magnitude / fftSize.
C16_LookupReturnsDetectedBin ==
  pc = "done" =>
    LET peaks == detectPeaksIgnoringNoiseFloor(fin.sp, fin.fmin)
        n     == Len(fin.sp.freqs)
    IN /\ Len(fout.bins) = Len(fout.info)
       /\ \A j \in DOMAIN fout.info :
            /\ \E k \in DOMAIN peaks :
                 /\ peaks[k].freq = fout.info[j].freq
                 /\ peaks[k].index = fout.bins[j]
                 /\ peaks[k].mag = fout.info[j].mag
            /\ fout.bins[j] # 0 /\ fout.bins[j] # n - 1
            /\ fout.info[j].amp = Rat(2 * fout.info[j].mag, fin.sp.fftSize)
       /\ \A j \in DOMAIN fout.terms :
            \E k \in DOMAIN peaks :
              /\ peaks[k].freq = fout.terms[j].freq
              /\ fout.terms[j].amp = Rat(2 * peaks[k].mag, fin.sp.fftSize)

\* Two harmonics of different magnitudes selected above a cutoff that is not 0,
\* both in the table and in the reconstruction.
C16_Witness ==
  /\ pc = "done" /\ fin.fmin # <<0, 1>>
  /\ Len(fout.info) = 2 /\ Len(fout.terms) = 2
  /\ fout.info[1].mag > fout.info[2].mag
  /\ fout.bins[1] > fout.bins[2]

(***************************************************************************)
(* SpecTone: the pipeline on 10 s of 1.0 + 0.5 cos(2 pi 5 t) sampled at    *)
(* 100 Hz (1000 samples, zero-padded to 1024), with fmin = 0 and count = 1.*)
(* A sample counts units of 1/1000, so a magnitude and an amplitude count  *)
(* units of 1e-6.  The loop of computeFftWithPhase over the bins (page.tsx *)
(* 186-196) is one step per bin; the harmonic table and the reconstruction *)
(* are one step each after it.  The cosine of a reconstructed              *)
(* term is evaluated: its angle is a multiple of 2 pi / 1024 plus the      *)
(* phase atan2(im, re) of its bin.                                         *)
(***************************************************************************)
\* 1000 (1 + 0.5 cos(2 pi n / 20)) rounded, n = 0 .. 19: one period of the tone.
ToneCycle ==
  <<1500, 1476, 1405, 1294, 1155, 1000, 845, 706, 595, 524,
    500, 524, 595, 706, 845, 1000, 1155, 1294, 1405, 1476>>
ToneInput ==
  [acc   |-> [n \in 1..1000 |-> ToneCycle[((n - 1) % 20) + 1]],
   hz    |-> <<100, 1>>,
   fmin  |-> <<0, 1>>,
   count |-> 1]

NoSpectrum(size) == [freqs |-> <<>>, mags |-> <<>>, phases |-> <<>>, fftSize |-> size]
InitTone ==
  /\ AppIdle /\ pc = "bins"
  /\ fin = ToneInput
  /\ fout = NoSpectrum(Pow2Size(Len(fin.acc)))

\* page.tsx 186-196: bin k is pushed.
ToneBin ==
  /\ pc = "bins"
  /\ LET k  == Len(fout.mags)
         X  == TransformBin(fin.acc, fout.fftSize, k)
     IN /\ fout' = [freqs   |-> Append(fout.freqs, Rat(fin.hz[1] * k, fin.hz[2] * fout.fftSize)),
                    mags    |-> Append(fout.mags, Hypot(X[1], X[2])),
                    phases  |-> Append(fout.phases, <<X[2], X[1]>>),
                    fftSize |-> fout.fftSize]
        /\ pc' = IF k = fout.fftSize \div 2 THEN "spectrum" ELSE "bins"
  /\ UNCHANGED <<fin, appVars, memoVars>>

\* The angle 2 pi freq (n - 1) / hz of sample n in units of 2 pi / 1024, for a
\* frequency that is a multiple of hz / 1024.
AngleAt(freq, hz, n) ==
  LET perSample == Rat(freq[1] * hz[2] * 1024, freq[2] * hz[1])
  IN (perSample[1] * (n - 1)) % 1024

\* 1000 cos(angle + atan2(im, re)) = 1000 (cos(angle) re - sin(angle) im) / hypot.
CosOfSum(angle, phase) ==
  LET s  == (Max(Abs(phase[1]), Abs(phase[2])) \div 524288) + 1
      im == phase[1] \div s
      re == phase[2] \div s
  IN (CosWave(angle) * re - SinWave(angle) * im) \div Hypot(re, im)

\* page.tsx 510: amp * Math.cos(w * time[i] + phi), in units of 1e-6.
TermValue(term, hz, n) ==
  ((term.amp[1] \div term.amp[2]) * CosOfSum(AngleAt(term.freq, hz, n), term.phase)) \div 1000

\* page.tsx 509-518: yRecon[n], in units of 1/1000.
ToneValue(terms, mean, hz, n) ==
  (SeqSum([j \in DOMAIN terms |-> TermValue(terms[j], hz, n)]) \div 1000)
    + (mean[1] \div mean[2])

\* page.tsx 409-443 and 473-507 on the spectrum: the harmonic table, the terms
\* of the reconstruction and the mean.
ToneHarmonics ==
  /\ pc = "spectrum"
  /\ LET ser    == [n \in DOMAIN fin.acc |-> <<fin.acc[n]>>]
         hf     == HarmonicFreqsOf(fout, fin.fmin)
         chosen == FilterRange(Slice(hf, Min(fin.count, Len(hf))), fin.fmin,
                               RatDivInt(fin.hz, 2))
     IN fout' = [info     |-> HarmonicInfoOf(fout, fin.count, hf),
                 terms    |-> CosTerms(fout, chosen, <<0, 1>>),
                 mean     |-> MeanOrig(ser),
                 binWidth |-> Rat(fin.hz[1], fin.hz[2] * fout.fftSize)]
  /\ pc' = "terms"
  /\ UNCHANGED <<fin, appVars, memoVars>>

\* page.tsx 509-518 over the samples: the sum of the squared differences
\* between the reconstruction and the series, in units of 1e-6.
ToneReconstruct ==
  /\ pc = "terms"
  /\ fout' = [info     |-> fout.info,
              terms    |-> fout.terms,
              binWidth |-> fout.binWidth,
              sqErr    |-> SeqSum([n \in DOMAIN fin.acc |->
                             (fin.acc[n] - ToneValue(fout.terms, fout.mean, fin.hz, n)) ^ 2]),
              samples  |-> Len(fin.acc)]
  /\ pc' = "done"
  /\ UNCHANGED <<fin, appVars, memoVars>>

NextTone == ToneBin \/ ToneHarmonics \/ ToneReconstruct
SpecTone == InitTone /\ [][NextTone]_vars

\* C13 as stated, with wide tolerances: one harmonic within a bin width of
\* 5 Hz, of amplitude 0.5 +- 0.1 and phase 0 +- 0.5 rad (tan 0.5 = 0.546), and
\* a mean squared error of at most 0.01 (the variance of the series is 0.125).
C13_ToneRecovered ==
  pc = "done" =>
    /\ Len(fout.info) = 1 /\ Len(fout.terms) = 1
    /\ RatLeq(RatAbs(RatSub(fout.info[1].freq, <<5, 1>>)), fout.binWidth)
    /\ Abs((fout.info[1].amp[1] \div fout.info[1].amp[2]) - 500000) <= 100000
    /\ LET im == fout.info[1].phase[1] \div 1000
           re == fout.info[1].phase[2] \div 1000
       IN re > 0 /\ Abs(im) * 1000 <= 546 * re
    /\ fout.sqErr <= 10000 * fout.samples

\* C13 as it holds: the harmonic is bin 51 of 1024, 4.98 Hz, within a bin width
\* of 5 Hz; its amplitude is 0.45 +- 0.01; its phase is between 0.54 and 0.68
\* rad (tan between 0.6 and 0.8); and the mean squared error is between 0.014
\* and 0.017, more than a tenth of the variance of the series.
C13_ToneRecoveredAtBin ==
  pc = "done" =>
    /\ Len(fout.info) = 1 /\ Len(fout.terms) = 1
    /\ fout.info[1].freq = Rat(51 * 100, 1024)
    /\ fout.terms[1].freq = fout.info[1].freq
    /\ RatLeq(RatAbs(RatSub(fout.info[1].freq, <<5, 1>>)), fout.binWidth)
    /\ Abs((fout.info[1].amp[1] \div fout.info[1].amp[2]) - 450000) <= 10000
    /\ LET im == fout.info[1].phase[1] \div 1000
           re == fout.info[1].phase[2] \div 1000
       IN re > 0 /\ 6 * re <= 10 * im /\ 10 * im <= 8 * re
    /\ fout.sqErr >= 14000 * fout.samples
    /\ fout.sqErr <= 17000 * fout.samples

\* The tone went through the pipeline and one harmonic was reconstructed over
\* the 1000 samples.
C13_Witness ==
  /\ pc = "done" /\ Len(fin.acc) = 1000 /\ fin.count = 1
  /\ Len(fout.terms) = 1 /\ fout.samples = 1000
  /\ fout.sqErr > 0

(***************************************************************************)
(* Home: state, events and re-render (page.tsx 273-592).                   *)
(*                                                                         *)
(* An event handler sets state and React re-renders before the next event: *)
(* an action is the handler, the render that follows (every useMemo whose  *)
(* dependencies changed is recomputed) and the effect of page.tsx 332-350. *)
(* A dependency is compared by value here and by identity in React; the    *)
(* arrays among them are rebuilt exactly when their own inputs change, so  *)
(* the two agree on when a value is stale.                                 *)
(***************************************************************************)
\* The dependency lists of the useMemo calls.
SampleHzDeps      == <<rows>>                                          \* 383
RelTimesSecDeps   == <<rows>>                                          \* 396
SeriesDeps        == <<rows, selectedKey>>                             \* 397
SpectrumDepsNoSeries == <<sampleHz>>
SpectrumDeps      == <<series, sampleHz>>                              \* 407
HarmonicFreqsDepsNoCutoff == <<spectrum>>
HarmonicFreqsDeps == <<spectrum, fminHz>>                              \* 412
HarmonicInfoDeps  == <<spectrum, harmonicsCount, harmonicFreqs>>       \* 443
EquationDeps      == <<harmonicInfo>>                                  \* 455
ReconstructedDeps == <<spectrum, rows, sampleHz, relTimesSec, harmonicFreqs,
                       harmonicsCount, fminHz, series>>                \* 529

Render ==
  /\ sampleHz' = IF SampleHzDeps' # SampleHzDeps THEN SampleHzOf(rows') ELSE sampleHz
  /\ relTimesSec' = IF RelTimesSecDeps' # RelTimesSecDeps
                    THEN RelTimesSecOf(rows') ELSE relTimesSec
  /\ series' = IF SeriesDeps' # SeriesDeps THEN SeriesOf(rows', selectedKey') ELSE series
  /\ spectrum' = IF SpectrumDeps' # SpectrumDeps
                 THEN SpectrumOf(rows', sampleHz', series') ELSE spectrum
  /\ harmonicFreqs' = IF HarmonicFreqsDeps' # HarmonicFreqsDeps
                      THEN HarmonicFreqsOf(spectrum', fminHz') ELSE harmonicFreqs
  /\ harmonicInfo' = IF HarmonicInfoDeps' # HarmonicInfoDeps
                     THEN HarmonicInfoOf(spectrum', harmonicsCount', harmonicFreqs')
                     ELSE harmonicInfo
  /\ equation' = IF EquationDeps' # EquationDeps THEN EquationOf(harmonicInfo') ELSE equation
  /\ reconstructed' = IF ReconstructedDeps' # ReconstructedDeps
                      THEN ReconstructedOf(spectrum', rows', sampleHz', relTimesSec',
                                           harmonicFreqs', harmonicsCount', fminHz', series')
                      ELSE reconstructed

\* A load in flight: the example file being fetched (page.tsx 335-337) or a file
\* being parsed inside handleFile (page.tsx 318).
\* `latest` tells that handleFile was called for no other load since it was
\* called for this one.
DefaultFetch == [kind |-> "default", stage |-> "fetch", latest |-> FALSE]
DefaultParse == [kind |-> "default", stage |-> "parse", latest |-> TRUE]
UserParse    == [kind |-> "user", stage |-> "parse", latest |-> TRUE]

\* page.tsx 315: handleFile is called once more, after every load in `pending`.
Superseded(pending) == [j \in DOMAIN pending |-> [pending[j] EXCEPT !.latest = FALSE]]

RemoveAt(s, i) == [j \in 1..(Len(s) - 1) |-> IF j < i THEN s[j] ELSE s[j + 1]]

\* page.tsx 332-350: after a render in which rows changed, the effect runs again
\* and starts loading the example file when rows is null.
EffectAfter(pending) ==
  IF rows' # rows /\ rows' = <<>> THEN Append(pending, DefaultFetch) ELSE pending

NoRowsMessage == "No valid rows parsed. Ensure the file is tab-delimited with header including AccX(g)."
ParseFailedMessage == "Failed to parse file"
FetchFailedMessage == "Failed to fetch"

\* The number of rows of a file whose time cell parses.
Survivors(file) == Len(CollectRows(file, file.rows))

\* page.tsx 319-323 and 326-328: what becomes of the Series when a load fails.
RowsAfterFailureKept(prev) == prev
RowsAfterFailure(prev) == <<>>

\* Input file chosen (page.tsx 550-556): handleFile runs up to its await.
SelectFile ==
  /\ pc = "app"
  /\ Len(inflight) < MaxInflight
  /\ error' = ""                                                    \* 316
  /\ inflight' = Append(Superseded(inflight), UserParse)
  /\ last' = [ev |-> "other"]
  /\ UNCHANGED <<rows, selectedKey, harmonicsCount, fminHz, fnVars>>
  /\ Render

\* page.tsx 318-324: the parse of load i resolves with the rows of `file`.
HandleFileResolved(i, file) ==
  LET parsed == ParsedFile(file)
  IN /\ pc = "app"
     /\ i \in DOMAIN inflight /\ inflight[i].stage = "parse"
     /\ IF Len(parsed) = 0
        THEN /\ error' = NoRowsMessage
             /\ rows' = RowsAfterFailure(rows)
        ELSE /\ rows' = parsed
             /\ UNCHANGED error
     /\ inflight' = EffectAfter(RemoveAt(inflight, i))
     /\ last' = [ev |-> "handleFileDone", hasTime |-> file.hasTime,
                 survivors |-> Min(1, Survivors(file)), hadRows |-> rows # <<>>,
                 threw |-> FALSE, latest |-> inflight[i].latest]
     /\ UNCHANGED <<selectedKey, harmonicsCount, fminHz, fnVars>>
     /\ Render

\* page.tsx 325-329: the parse of load i rejects (papaparse's error callback)
\* with an error whose message is empty, so that the fallback text is shown.
HandleFileRejected(i) ==
  /\ pc = "app"
  /\ i \in DOMAIN inflight /\ inflight[i].stage = "parse"
  /\ error' = ParseFailedMessage
  /\ rows' = RowsAfterFailure(rows)
  /\ inflight' = EffectAfter(RemoveAt(inflight, i))
  /\ last' = [ev |-> "handleFileRejected", hadRows |-> rows # <<>>, threw |-> FALSE,
              latest |-> inflight[i].latest]
  /\ UNCHANGED <<selectedKey, harmonicsCount, fminHz, fnVars>>
  /\ Render

\* page.tsx 335-338: the fetch of the example file answers 200 and handleFile is
\* called with it, running up to its await.
ExampleFetched(i) ==
  /\ pc = "app"
  /\ i \in DOMAIN inflight /\ inflight[i] = DefaultFetch
  /\ error' = ""
  /\ inflight' = [Superseded(inflight) EXCEPT ![i] = DefaultParse]
  /\ last' = [ev |-> "other"]
  /\ UNCHANGED <<rows, selectedKey, harmonicsCount, fminHz, fnVars>>
  /\ Render

\* page.tsx 336 and 339-345: the answer is not ok ("... not found ..." is thrown,
\* caught and ignored), or the fetch itself fails and its message is shown.
ExampleMissing(i) ==
  /\ pc = "app"
  /\ i \in DOMAIN inflight /\ inflight[i] = DefaultFetch
  /\ inflight' = RemoveAt(inflight, i)
  /\ last' = [ev |-> "other"]
  /\ UNCHANGED <<rows, error, selectedKey, harmonicsCount, fminHz, fnVars, memoVars>>

ExampleFetchFailed(i) ==
  /\ pc = "app"
  /\ i \in DOMAIN inflight /\ inflight[i] = DefaultFetch
  /\ error' = FetchFailedMessage
  /\ inflight' = RemoveAt(inflight, i)
  /\ last' = [ev |-> "other"]
  /\ UNCHANGED <<rows, selectedKey, harmonicsCount, fminHz, fnVars>>
  /\ Render

\* page.tsx 561: another column is selected.
SelectColumn(key) ==
  /\ pc = "app"
  /\ key # selectedKey
  /\ selectedKey' = key
  /\ last' = [ev |-> "other"]
  /\ UNCHANGED <<rows, error, harmonicsCount, fminHz, inflight, fnVars>>
  /\ Render

\* page.tsx 575-583: Add Harmonic (disabled without a spectrum).
AddHarmonic ==
  /\ pc = "app"
  /\ spectrum # <<>>
  /\ harmonicsCount < MaxCount
  /\ harmonicsCount' = harmonicsCount + 1
  /\ last' = [ev |-> "other"]
  /\ UNCHANGED <<rows, error, selectedKey, fminHz, inflight, fnVars>>
  /\ Render

\* page.tsx 584-592: Remove Harmonic (disabled without a spectrum or at 0).
RemoveHarmonic ==
  /\ pc = "app"
  /\ spectrum # <<>> /\ harmonicsCount > 0
  /\ harmonicsCount' = Max(0, harmonicsCount - 1)
  /\ last' = [ev |-> "other"]
  /\ UNCHANGED <<rows, error, selectedKey, fminHz, inflight, fnVars>>
  /\ Render

\* page.tsx 744-752: the cutoff slider (shown with a spectrum), 0 .. max(1, Fs/2).
CutoffChoices == {<<0, 1>>, <<30, 1>>}
SetCutoff(v) ==
  /\ pc = "app"
  /\ spectrum # <<>>
  /\ v # fminHz
  /\ RatLeq(v, IF RatLess(RatDivInt(sampleHz, 2), <<1, 1>>) THEN <<1, 1>>
               ELSE RatDivInt(sampleHz, 2))
  /\ fminHz' = v
  /\ last' = [ev |-> "other"]
  /\ UNCHANGED <<rows, error, selectedKey, harmonicsCount, inflight, fnVars>>
  /\ Render

\* After the first render and its effects: nothing loaded, the example file
\* being fetched.
Init ==
  /\ rows = <<>> /\ error = "" /\ selectedKey = "AccX(g)"
  /\ harmonicsCount = 0 /\ fminHz = <<0, 1>>
  /\ inflight = <<DefaultFetch>>
  /\ last = [ev |-> "other"]
  /\ sampleHz = <<>> /\ relTimesSec = <<>> /\ series = <<>> /\ spectrum = <<>>
  /\ harmonicFreqs = <<>> /\ harmonicInfo = <<>> /\ equation = <<>>
  /\ reconstructed = <<>>
  /\ fin = <<>> /\ fout = <<>> /\ pc = "app"

Next ==
  \/ SelectFile
  \/ \E i \in 1..MaxInflight : \E file \in AppFiles : HandleFileResolved(i, file)
  \/ \E i \in 1..MaxInflight : HandleFileRejected(i)
  \/ \E i \in 1..MaxInflight : ExampleFetched(i)
  \/ \E i \in 1..MaxInflight : ExampleMissing(i)
  \/ \E i \in 1..MaxInflight : ExampleFetchFailed(i)
  \/ \E key \in COLUMN_KEYS : SelectColumn(key)
  \/ AddHarmonic
  \/ RemoveHarmonic
  \/ \E v \in CutoffChoices : SetCutoff(v)

Spec == Init /\ [][Next]_vars

(***************************************************************************)
(* What is checked of Home.                                                *)
(***************************************************************************)
\* C2: a load of a file without a time column, or of which no row survives the
\* filtering, ends with an error recorded and the Series empty, whatever Series
\* was shown before, and nothing thrown out of handleFile.
C2_FailedLoadIsRecoverable ==
  (last.ev = "handleFileDone" /\ (~last.hasTime \/ last.survivors = 0))
    => (error # "" /\ rows = <<>> /\ ~last.threw)

\* A file without a time column was loaded over a Series.
C2_Witness ==
  /\ last.ev = "handleFileDone" /\ ~last.hasTime /\ last.hadRows
  /\ error = NoRowsMessage /\ rows = <<>>

\* C7: in every reconstruction the constants added to a sample are one constant,
\* the sum of the finite values of the selected channel divided by their number.
C7_MeanOfFiniteValuesAddedOnce ==
  reconstructed # <<>> =>
    \A i \in DOMAIN reconstructed.y :
      reconstructed.y[i].consts = <<Rat(SeqSum(Clean(series)), Len(Clean(series)))>>

\* A reconstruction from one harmonic of a channel that lacks a sample and whose
\* finite values do not sum to zero.
C7_Witness ==
  /\ reconstructed # <<>>
  /\ \E i \in DOMAIN series : series[i] = <<>>
  /\ SeqSum(Clean(series)) # 0
  /\ Len(reconstructed.y[1].cos) = 1
  /\ Len(reconstructed.y[1].consts) = 1

\* C8: in every state each derived value is the pipeline applied to the current
\* Series, channel, cutoff and count.
C8_DerivedValuesFollowInputs ==
  LET hz   == SampleHzOf(rows)
      time == RelTimesSecOf(rows)
      ser  == SeriesOf(rows, selectedKey)
      sp   == SpectrumOf(rows, hz, ser)
      hf   == HarmonicFreqsOf(sp, fminHz)
      info == HarmonicInfoOf(sp, harmonicsCount, hf)
  IN /\ sampleHz = hz
     /\ relTimesSec = time
     /\ series = ser
     /\ spectrum = sp
     /\ harmonicFreqs = hf
     /\ harmonicInfo = info
     /\ equation = EquationOf(info)
     /\ reconstructed = ReconstructedOf(sp, rows, hz, time, hf, harmonicsCount, fminHz, ser)

\* A second Series was loaded over a first one, and a reconstruction of it from
\* two detected harmonics is shown.
C8_Witness ==
  /\ last.ev = "handleFileDone" /\ last.hadRows
  /\ reconstructed # <<>>
  /\ Len(harmonicFreqs) = 2

\* C9: no Spectrum without a rate or with fewer than 4 finite values in the
\* selected channel; no harmonic list and no equation without a Spectrum; no
\* reconstruction with a count of 0, without a detected peak or without a
\* selected harmonic.
C9_FailuresDegradeForward ==
  /\ (sampleHz = <<>> \/ Len(Clean(series)) < 4) => spectrum = <<>>
  /\ spectrum = <<>> => (harmonicFreqs = <<>> /\ harmonicInfo = <<>> /\ equation = <<>>)
  /\ (harmonicsCount = 0 \/ harmonicFreqs = <<>> \/ harmonicInfo = <<>>)
       => reconstructed = <<>>

\* A Series with a rate whose selected channel has 3 finite values, and a count
\* above 0.
C9_Witness ==
  /\ rows # <<>> /\ sampleHz # <<>>
  /\ Len(Clean(series)) = 3
  /\ harmonicsCount > 0
  /\ spectrum = <<>> /\ reconstructed = <<>>

\* C10: a reconstruction has one value per row of the Series, and the value at
\* row i is evaluated at (time_i - time_1) / 1000 seconds, which is 0 at the
\* first row and never decreases.
C10_ReconstructionAlignedWithSeries ==
  reconstructed # <<>> =>
    LET y == reconstructed.y
        T(i) == Rat(rows[i].time - rows[1].time, 1000)
    IN /\ Len(y) = Len(rows)
       /\ Len(reconstructed.x) = Len(rows)
       /\ \A i \in DOMAIN y :
            /\ y[i].cos # <<>>
            /\ \A j \in DOMAIN y[i].cos : y[i].cos[j].t = T(i)
       /\ T(1) = <<0, 1>>
       /\ \A i \in 1..(Len(rows) - 1) : RatLeq(T(i), T(i + 1))

\* A reconstruction of a channel that lacks a sample of the Series.
C10_Witness ==
  /\ reconstructed # <<>>
  /\ Len(Clean(series)) < Len(rows)
  /\ rows[1].time # 0
  /\ Len(reconstructed.y) = Len(rows)

\* C14: when the parse of a load finishes and leaves no parse in flight, the
\* Series and the error are those of the load for which handleFile was called
\* last: that load's own outcome when it is the one finishing (its rows and no
\* error, or no Series and an error), and untouched when the load finishing was
\* started before one that has finished already.
C14_LastStartedLoadWins ==
  [][(/\ last'.ev \in {"handleFileDone", "handleFileRejected"}
      /\ \A j \in DOMAIN inflight' : inflight'[j].stage # "parse")
       => IF last'.latest
          THEN IF last'.ev = "handleFileDone" /\ last'.hasTime /\ last'.survivors = 1
               THEN rows' # <<>> /\ error' = ""
               ELSE rows' = <<>> /\ error' # ""
          ELSE rows' = rows /\ error' = error]_vars

\* Two parses overlapped, the one started first finished last, and its rows are
\* the Series.
C14_Witness ==
  /\ last.ev = "handleFileDone" /\ ~last.latest
  /\ inflight = <<>>
  /\ rows # <<>>

\* C15: a load is started by the user only (after the example load of start-up);
\* the step in which a load fails while a Series is displayed leaves an error, no
\* Series and no new load; and with an error, no Series and nothing in flight,
\* the next step keeps both unless it is the user starting a load.
C15_FailedLoadStaysFailed ==
  [][/\ Len(inflight') > Len(inflight) => inflight'[Len(inflight')].kind = "user"
     /\ (/\ last'.ev \in {"handleFileDone", "handleFileRejected"}
         /\ last'.hadRows
         /\ (last'.ev = "handleFileDone" => (~last'.hasTime \/ last'.survivors = 0)))
          => (rows' = <<>> /\ error' # "" /\ Len(inflight') < Len(inflight))
     /\ (rows = <<>> /\ error # "" /\ inflight = <<>>)
          => \/ rows' = <<>> /\ error' # ""
             \/ inflight' = <<UserParse>>]_vars

\* A load failed while a Series was displayed; the Series is gone, the error is
\* shown, and the example file is being fetched again.
C15_Witness ==
  /\ last.ev \in {"handleFileDone", "handleFileRejected"} /\ last.hadRows
  /\ rows = <<>> /\ error # ""
  /\ inflight = <<DefaultFetch>>

====
